---- MODULE Spec2Model ----
(***************************************************************************)
(* Model of src/context.py: the heuristic relationship resolver that       *)
(* builds a context bundle for a list of target Java files.                *)
(*                                                                         *)
(* Abstraction of the file system and of the regular expressions:          *)
(*   - a source file is named by its path; every file of Files lives in    *)
(*     the one package directory src/main/java/p of the repository;        *)
(*   - the text of a file is known only through what the regular           *)
(*     expressions of context.py find in it: its package declaration       *)
(*     (PackageOf), its first type declaration (TypeOf), its import        *)
(*     names, its extends/implements tokens, the simple names its text     *)
(*     matches in the reverse-dependency search (refs) and in the bean     *)
(*     search (BeanRefs);                                                  *)
(*   - list(set(...)) and os.walk give their elements in an order the      *)
(*     program does not control: a loop over such a list takes the         *)
(*     remaining elements in any order, and a slice [:limit] keeps any     *)
(*     limit of them.                                                      *)
(***************************************************************************)
EXTENDS Integers, Sequences, FiniteSets, TLC

\* ------------------------------------------------------------------ bounds
MaxDepth == 3          \* largest traversal depth tried on the traversal alone
MaxLimit == 2          \* largest reverse-dependency limit tried

\* ------------------------------------------------------------ the repository
None == "None"
Pkg == "p"
Files == {"A", "B", "C", "DTest"}
\* re.search(r'(?i)test\.java$', f)
TestFiles == {"DTest"}
\* <<file, simple name>>: the text of file matches one of the patterns that
\* find_reverse_dependencies builds for a type of that simple name in package p
FixedRefs == { <<"B", "A">> }
RefChoices ==
    { <<"C", "B">>, <<"DTest", "C">>,  \* with B -> A, the chain A <- B <- C <- DTest
      <<"C", "A">>,                    \* two chains of different length to C
      <<"DTest", "B">>,                \* DTest reached through B and through C
      <<"A", "DTest">>, <<"A", "A">> } \* a cycle, a self reference
ChainRefs == { <<"B", "A">>, <<"C", "B">>, <<"DTest", "C">> }

VARIABLES
    refs,            \* the reference relation of the repository, a subset of RefChoices
    nopkg,           \* files in which PACKAGE_RE finds nothing
    notype,          \* files in which TYPE_RE finds nothing
    include_tests,   \* parameter include_tests
    depth,           \* parameter depth
    reverse_limit,   \* parameter limit / reverse_limit; 0 stands for None (both falsy)
    root_fqn,        \* target_fqn of the top-level call
    stack,           \* activation records of recursive_reverse_dependencies, top last
    visited,         \* the visited set shared by one top-level call
    searches,        \* how often find_reverse_dependencies ran, per <<fqn, current_depth>>
    result,          \* what the top-level call returned
    ret_to,          \* where the top-level call returns to
    pc,              \* where the program is
    a_imports,       \* the import names IMPORT_RE finds in A.java
    target_files,    \* parameter target_files
    ti,              \* position of `for target_file_path in target_files`
    cur,             \* the locals of one turn of that loop
    pending,         \* what is left of the list an inner loop runs over
    seen_files,      \* seen_files
    output_chunks,   \* output_chunks
    code,            \* the argument of extract_full_type, as a sequence of tokens
    full_type        \* what extract_full_type returned

vars == <<refs, nopkg, notype, include_tests, depth, reverse_limit, root_fqn,
          stack, visited, searches, result, ret_to, pc,
          a_imports, target_files, ti, cur, pending, seen_files, output_chunks,
          code, full_type>>

text_vars == <<code, full_type>>
\* what the traversal and the assembler only read (text_vars: they do not touch it)
repo_vars == <<refs, nopkg, notype, include_tests, depth, reverse_limit, a_imports,
               target_files, text_vars>>
rev_vars == <<root_fqn, stack, visited, searches, result, ret_to>>
ctx_vars == <<ti, cur, pending, seen_files, output_chunks>>

\* PACKAGE_RE.search(code): group 1, or None
PackageOf(f) == IF f \in nopkg THEN None ELSE Pkg
\* TYPE_RE.search(code): group 2, or None; a file declares the type it is named after
TypeOf(f) == IF f \in notype THEN None ELSE f
\* f"{pkg}.{cls}"
Fqn(pkg, cls) == <<pkg, cls>>
\* target_fqn.split(".")[-1]
base_name(fqn) == fqn[2]
\* `if pkg and cls`
\* variant: the recursion is not guarded by `if pkg and cls`
MutRecoverableAlways(f) == TRUE
Recoverable(f) == PackageOf(f) # None /\ TypeOf(f) # None
FqnOfFile(f) == Fqn(PackageOf(f), TypeOf(f))

find_reverse_dependencies(target_fqn, tests) ==
    { f \in Files : /\ (tests \/ f \notin TestFiles)
                    /\ <<f, base_name(target_fqn)>> \in refs }

Min(a, b) == IF a < b THEN a ELSE b

\* `if limit: files = files[:limit]`: the lists the slice can give, as sets
\* variant: the slice is left out
MutTruncateNothing(files, limit) == {files}
Truncate(files, limit) ==
    IF limit = 0 THEN {files}
    ELSE { s \in SUBSET files : Cardinality(s) = Min(limit, Cardinality(files)) }

\* the key of the visited set
\* variant: the visited set is keyed by the FQN alone
MutVisitedKeyFqnOnly(fqn, current_depth) == <<fqn, 0>>
VisitedKey(fqn, current_depth) == <<fqn, current_depth>>

\* visited.add(...)
\* variant: visited.add is left out
MutAddVisitedForgotten(v, key) == v
AddVisited(v, key) == v \cup {key}

\* the depth passed to the recursive call
\* variant: the recursive call passes depth on unchanged
MutChildDepthSame(d) == d
ChildDepth(d) == d - 1

Frame(fqn, d, cd) ==
    [fqn |-> fqn, depth |-> d, current_depth |-> cd, at |-> "enter",
     files |-> {}, todo |-> {}, results |-> {}]

Top == stack[Len(stack)]
SetTop(fr) == [stack EXCEPT ![Len(stack)] = fr]
Pop == SubSeq(stack, 1, Len(stack) - 1)

\* `return value` of the top activation: the caller extends its results with it;
\* the top-level caller receives it
Return(value) ==
    IF Len(stack) = 1
    THEN /\ stack' = <<>>
         /\ result' = value
         /\ pc' = ret_to
    ELSE /\ stack' = [Pop EXCEPT ![Len(stack) - 1].results = @ \cup value]
         /\ UNCHANGED <<result, pc>>

\* the log of the searches run: <<fqn, current_depth>> -> how often
NoSearches == [k \in {} |-> 0]
Logged(log, key) ==
    IF key \in DOMAIN log THEN [log EXCEPT ![key] = @ + 1] ELSE log @@ (key :> 1)

\* `if depth <= 0: return []`
RevBase ==
    /\ pc = "rev" /\ stack # <<>> /\ Top.at = "enter"
    /\ Top.depth <= 0
    /\ Return({})
    /\ UNCHANGED <<repo_vars, ctx_vars, root_fqn, visited, searches, ret_to>>

\* `if (target_fqn, current_depth) in visited: return []`
RevVisited ==
    /\ pc = "rev" /\ stack # <<>> /\ Top.at = "enter"
    /\ Top.depth > 0
    /\ VisitedKey(Top.fqn, Top.current_depth) \in visited
    /\ Return({})
    /\ UNCHANGED <<repo_vars, ctx_vars, root_fqn, visited, searches, ret_to>>

\* visited.add; files = find_reverse_dependencies(...); the limit's slice
RevExpand ==
    /\ pc = "rev" /\ stack # <<>> /\ Top.at = "enter"
    /\ Top.depth > 0
    /\ VisitedKey(Top.fqn, Top.current_depth) \notin visited
    /\ visited' = AddVisited(visited, VisitedKey(Top.fqn, Top.current_depth))
    /\ searches' = Logged(searches, <<Top.fqn, Top.current_depth>>)
    /\ \E kept \in Truncate(find_reverse_dependencies(Top.fqn, include_tests),
                            reverse_limit) :
          stack' = SetTop([Top EXCEPT !.at = "loop", !.files = kept, !.todo = kept])
    /\ UNCHANGED <<repo_vars, ctx_vars, root_fqn, result, ret_to, pc>>

\* one turn of `for f in files` on a file without a recoverable FQN
RevRecord ==
    /\ pc = "rev" /\ stack # <<>> /\ Top.at = "loop"
    /\ \E f \in Top.todo :
          /\ ~Recoverable(f)
          /\ stack' = SetTop([Top EXCEPT !.todo = @ \ {f}, !.results = @ \cup {f}])
    /\ UNCHANGED <<repo_vars, ctx_vars, root_fqn, visited, searches, result, ret_to, pc>>

\* one turn of `for f in files` on a file with a FQN: the recursive call
RevRecurse ==
    /\ pc = "rev" /\ stack # <<>> /\ Top.at = "loop"
    /\ \E f \in Top.todo :
          /\ Recoverable(f)
          /\ stack' = Append(SetTop([Top EXCEPT !.todo = @ \ {f}, !.results = @ \cup {f}]),
                             Frame(FqnOfFile(f), ChildDepth(Top.depth),
                                   Top.current_depth + 1))
    /\ UNCHANGED <<repo_vars, ctx_vars, root_fqn, visited, searches, result, ret_to, pc>>

\* `return list(set(results))`
RevReturn ==
    /\ pc = "rev" /\ stack # <<>> /\ Top.at = "loop"
    /\ Top.todo = {}
    /\ Return(Top.results)
    /\ UNCHANGED <<repo_vars, ctx_vars, root_fqn, visited, searches, ret_to>>

NoTarget == [file |-> None, imports |-> <<>>, imp |-> None, deps |-> <<>>,
             fqn |-> None, cls |-> None]

\* which declarations the regular expressions miss
Malformed == { <<{}, {}>>, <<{"B"}, {"C"}>> }

\* recursive_reverse_dependencies(repo_path, "p.A", depth, include_tests, limit)
InitRev ==
    /\ \E r \in SUBSET RefChoices : refs = FixedRefs \cup r
    /\ \E m \in Malformed : nopkg = m[1] /\ notype = m[2]
    /\ include_tests \in BOOLEAN
    /\ depth \in 0 .. MaxDepth
    /\ reverse_limit \in 0 .. MaxLimit
    /\ root_fqn = Fqn(Pkg, "A")
    /\ stack = <<Frame(root_fqn, depth, 1)>>
    /\ visited = {}
    /\ searches = NoSearches
    /\ result = {}
    /\ ret_to = "done"
    /\ pc = "rev"
    /\ a_imports = <<>>
    /\ target_files = <<>>
    /\ ti = 0
    /\ cur = NoTarget
    /\ pending = {}
    /\ seen_files = {}
    /\ output_chunks = <<>>
    /\ code = <<>>
    /\ full_type = None

NextRev == RevBase \/ RevVisited \/ RevExpand \/ RevRecord \/ RevRecurse \/ RevReturn

SpecRev == InitRev /\ [][NextRev]_vars

FairRev == SpecRev /\ WF_vars(NextRev)

\* ------------------------------------------------------ the context assembler
MaxTargets == 2        \* longest list of target files tried

\* DTest.java lies under src/test/java/p, the others under src/main/java/p
MainFiles == Files \ TestFiles
Missing == "Missing"

\* an import name or an extends/implements token: <<package, simple name>>;
\* <<"p", "*">> is the wildcard import p.*, <<"", n>> an unqualified name
\* resolve_import: the files of base_src/<package path>/<name>.java
resolve_import(imp) ==
    IF imp[1] # Pkg THEN {}
    ELSE IF imp[2] = "*" THEN MainFiles
    ELSE IF imp[2] \in MainFiles THEN {imp[2]}
    ELSE {}

\* IMPORT_RE.findall(code)
ImportChoices == { << <<Pkg, "B">>, <<Pkg, "*">> >>, << <<"ext", "X">>, <<Pkg, "B">> >> }
ImportsOf(f) ==
    CASE f = "A" -> a_imports
      [] f = "B" -> << <<Pkg, "C">>, <<Pkg, "C">> >>
      [] OTHER -> <<>>

\* the tokens find_inheritance_dependencies splits the extends/implements
\* clauses into: A extends p.C, B extends A implements p.C
InheritTokens(f) ==
    CASE f = "A" -> << <<Pkg, "C">> >>
      [] f = "B" -> << <<"", "A">>, <<Pkg, "C">> >>
      [] OTHER -> <<>>

\* a non-wildcard name resolves to at most one file
FileList(files) == IF files = {} THEN <<>> ELSE <<CHOOSE f \in files : TRUE>>

RECURSIVE ResolveAll(_)
ResolveAll(tokens) ==
    IF tokens = <<>> THEN <<>>
    ELSE FileList(resolve_import(Head(tokens))) \o ResolveAll(Tail(tokens))

find_inheritance_dependencies(f) == ResolveAll(InheritTokens(f))

SeqRange(q) == { q[i] : i \in 1 .. Len(q) }

\* a file that imports or extends a type by name matches the search for it
ImpliedRefs ==
    { <<f, t[2]>> : <<f, t>> \in
        { <<g, u>> \in Files \X (UNION { SeqRange(ImportsOf(h)) \cup SeqRange(InheritTokens(h))
                                           : h \in Files }) :
            /\ u \in SeqRange(ImportsOf(g)) \cup SeqRange(InheritTokens(g))
            /\ u[2] # "*" /\ u[1] \in {Pkg, ""} } }

\* <<file, simple name>>: the text of file matches find_bean_configurations'
\* conditions for that name
BeanRefs == { <<"A", "A">>, <<"C", "A">>, <<"DTest", "A">>, <<"C", "B">> }
find_bean_configurations(target_class_name) ==
    { f \in Files : <<f, target_class_name>> \in BeanRefs }

\* current_fqn = f"{current_pkg}.{current_class}" if current_pkg and current_class else None
\* variant: the f-string is built without the `if current_pkg and current_class`
MutCurrentFqnUnguarded(pkg, cls) == Fqn(pkg, cls)
current_fqn(pkg, cls) == IF pkg # None /\ cls # None THEN Fqn(pkg, cls) ELSE None

\* a chunk of the output: its label line, the path of its comment line, whether
\* its text is the extracted type or the whole file, and (book-keeping) the
\* position in target_files of the target it was emitted for
Chunk(kind, label, path, body) ==
    [kind |-> kind, label |-> label, path |-> path, body |-> body, for |-> ti]

\* seen_files.add(...)
\* variant: the inheritance loop does not add to seen_files
MutMarkSeenForgotten(seen, kind, f) ==
    IF kind = "EXTENDS / IMPLEMENTS" THEN seen ELSE seen \cup {f}
MarkSeen(seen, kind, f) == seen \cup {f}

\* output_chunks.append(...)
\* variant: output_chunks.insert(0, ...)
MutAppendChunkInFront(chunks, c) == <<c>> \o chunks
AppendChunk(chunks, c) == Append(chunks, c)

Emit(kind, label, f, body) ==
    /\ seen_files' = MarkSeen(seen_files, kind, f)
    /\ output_chunks' = AppendChunk(output_chunks, Chunk(kind, label, f, body))

\* `if not os.path.exists(target_full_path): ... continue`
\* variant: `break` in the place of `continue`
MutSkipStops ==
    /\ pc = "target" /\ ti <= Len(target_files)
    /\ target_files[ti] \notin Files
    /\ pc' = "done"
    /\ UNCHANGED <<repo_vars, rev_vars, ti, cur, pending, seen_files, output_chunks>>
Skip ==
    /\ pc = "target" /\ ti <= Len(target_files)
    /\ target_files[ti] \notin Files
    /\ ti' = ti + 1
    /\ UNCHANGED <<repo_vars, rev_vars, pc, cur, pending, seen_files, output_chunks>>

\* the target is read, its imports, package, type and FQN are extracted
Analyze ==
    /\ pc = "target" /\ ti <= Len(target_files)
    /\ target_files[ti] \in Files
    /\ LET t == target_files[ti]
       IN  cur' = [file |-> t, imports |-> ImportsOf(t), imp |-> None, deps |-> <<>>,
                   fqn |-> current_fqn(PackageOf(t), TypeOf(t)), cls |-> TypeOf(t)]
    /\ pc' = "imports"
    /\ UNCHANGED <<repo_vars, rev_vars, ti, pending, seen_files, output_chunks>>

\* `for imp in imports`: resolve_import(imp, repo_path)
ImportResolve ==
    /\ pc = "imports" /\ pending = {} /\ cur.imports # <<>>
    /\ pending' = resolve_import(Head(cur.imports))
    /\ cur' = [cur EXCEPT !.imp = Head(cur.imports), !.imports = Tail(cur.imports)]
    /\ UNCHANGED <<repo_vars, rev_vars, pc, ti, seen_files, output_chunks>>

\* `if file_path in seen_files: continue`
ImportSeen ==
    /\ pc = "imports"
    /\ \E f \in pending : f \in seen_files /\ pending' = pending \ {f}
    /\ UNCHANGED <<repo_vars, rev_vars, pc, ti, cur, seen_files, output_chunks>>

ImportEmit ==
    /\ pc = "imports"
    /\ \E f \in pending :
          /\ f \notin seen_files
          /\ pending' = pending \ {f}
          /\ Emit("IMPORT", cur.imp, f, "type")
    /\ UNCHANGED <<repo_vars, rev_vars, pc, ti, cur>>

\* the imports are done: find_inheritance_dependencies(code, repo_path)
ImportsEnd ==
    /\ pc = "imports" /\ pending = {} /\ cur.imports = <<>>
    /\ cur' = [cur EXCEPT !.deps = find_inheritance_dependencies(cur.file)]
    /\ pc' = "inherit"
    /\ UNCHANGED <<repo_vars, rev_vars, ti, pending, seen_files, output_chunks>>

InheritSeen ==
    /\ pc = "inherit" /\ cur.deps # <<>>
    /\ Head(cur.deps) \in seen_files
    /\ cur' = [cur EXCEPT !.deps = Tail(cur.deps)]
    /\ UNCHANGED <<repo_vars, rev_vars, pc, ti, pending, seen_files, output_chunks>>

InheritEmit ==
    /\ pc = "inherit" /\ cur.deps # <<>>
    /\ Head(cur.deps) \notin seen_files
    /\ cur' = [cur EXCEPT !.deps = Tail(cur.deps)]
    /\ Emit("EXTENDS / IMPLEMENTS", None, Head(cur.deps), "file")
    /\ UNCHANGED <<repo_vars, rev_vars, pc, ti, pending>>

InheritEnd ==
    /\ pc = "inherit" /\ cur.deps = <<>>
    /\ pc' = "reverse"
    /\ UNCHANGED <<repo_vars, rev_vars, ti, cur, pending, seen_files, output_chunks>>

\* `if current_fqn:` recursive_reverse_dependencies(repo_path, current_fqn, depth,
\* include_tests, reverse_limit), with a visited set of its own
ReverseCall ==
    /\ pc = "reverse" /\ cur.fqn # None
    /\ root_fqn' = cur.fqn
    /\ stack' = <<Frame(cur.fqn, depth, 1)>>
    /\ visited' = {}
    /\ searches' = NoSearches
    /\ result' = {}
    /\ ret_to' = "rev_list"
    /\ pc' = "rev"
    /\ UNCHANGED <<repo_vars, ctx_vars>>

ReverseSkip ==
    /\ pc = "reverse" /\ cur.fqn = None
    /\ pc' = "bean"
    /\ UNCHANGED <<repo_vars, rev_vars, ctx_vars>>

\* the call has returned: `for fpath in` its list
ReverseList ==
    /\ pc = "rev_list"
    /\ pending' = result
    /\ pc' = "rev_emit"
    /\ UNCHANGED <<repo_vars, rev_vars, ti, cur, seen_files, output_chunks>>

ReverseSeen ==
    /\ pc = "rev_emit"
    /\ \E f \in pending : f \in seen_files /\ pending' = pending \ {f}
    /\ UNCHANGED <<repo_vars, rev_vars, pc, ti, cur, seen_files, output_chunks>>

ReverseEmit ==
    /\ pc = "rev_emit"
    /\ \E f \in pending :
          /\ f \notin seen_files
          /\ pending' = pending \ {f}
          /\ Emit("REVERSE DEPENDENCY", None, f, "file")
    /\ UNCHANGED <<repo_vars, rev_vars, pc, ti, cur>>

ReverseEnd ==
    /\ pc = "rev_emit" /\ pending = {}
    /\ pc' = "bean"
    /\ UNCHANGED <<repo_vars, rev_vars, ctx_vars>>

\* `if current_class:` find_bean_configurations(repo_path, current_class)
BeanSearch ==
    /\ pc = "bean" /\ cur.cls # None
    /\ pending' = find_bean_configurations(cur.cls)
    /\ pc' = "bean_emit"
    /\ UNCHANGED <<repo_vars, rev_vars, ti, cur, seen_files, output_chunks>>

\* no type declaration: the next target
BeanSkip ==
    /\ pc = "bean" /\ cur.cls = None
    /\ ti' = ti + 1
    /\ cur' = NoTarget
    /\ pc' = "target"
    /\ UNCHANGED <<repo_vars, rev_vars, pending, seen_files, output_chunks>>

BeanSeen ==
    /\ pc = "bean_emit"
    /\ \E f \in pending : f \in seen_files /\ pending' = pending \ {f}
    /\ UNCHANGED <<repo_vars, rev_vars, pc, ti, cur, seen_files, output_chunks>>

BeanEmit ==
    /\ pc = "bean_emit"
    /\ \E f \in pending :
          /\ f \notin seen_files
          /\ pending' = pending \ {f}
          /\ Emit("BEAN / CONFIGURATION", None, f, "file")
    /\ UNCHANGED <<repo_vars, rev_vars, pc, ti, cur>>

\* the bean files are done: the next target
BeanEnd ==
    /\ pc = "bean_emit" /\ pending = {}
    /\ ti' = ti + 1
    /\ cur' = NoTarget
    /\ pc' = "target"
    /\ UNCHANGED <<repo_vars, rev_vars, pending, seen_files, output_chunks>>

\* the loop over target_files is over: the text is joined and returned or written
Finish ==
    /\ pc = "target" /\ ti > Len(target_files)
    /\ pc' = "done"
    /\ UNCHANGED <<repo_vars, rev_vars, ctx_vars>>

RECURSIVE SeqsUpTo(_, _)
SeqsUpTo(S, n) ==
    IF n = 0 THEN {<<>>}
    ELSE LET shorter == SeqsUpTo(S, n - 1)
         IN  shorter \cup { Append(q, x) : q \in shorter, x \in S }

CtxMalformed == { <<{}, {}>>, <<{"B"}, {}>>, <<{}, {"B"}>> }
CtxDepths == {1, 3}
CtxLimits == {0, 1}

\* prepare_context_multi(repo_path, target_files, depth=..., include_tests=...,
\* reverse_limit=...)
InitCtx ==
    /\ a_imports \in ImportChoices
    /\ \E r \in SUBSET { <<"C", "B">>, <<"C", "A">> } :
          refs = FixedRefs \cup { <<"DTest", "A">> } \cup r \cup ImpliedRefs
    /\ \E m \in CtxMalformed : nopkg = m[1] /\ notype = m[2]
    /\ include_tests \in BOOLEAN
    /\ depth \in CtxDepths
    /\ reverse_limit \in CtxLimits
    /\ target_files \in SeqsUpTo({"A", "B", Missing}, MaxTargets)
    /\ root_fqn = None
    /\ stack = <<>>
    /\ visited = {}
    /\ searches = NoSearches
    /\ result = {}
    /\ ret_to = "rev_list"
    /\ pc = "target"
    /\ ti = 1
    /\ cur = NoTarget
    /\ pending = {}
    /\ seen_files = {}
    /\ output_chunks = <<>>
    /\ code = <<>>
    /\ full_type = None

NextCtx ==
    \/ Skip \/ Analyze \/ Finish
    \/ ImportResolve \/ ImportSeen \/ ImportEmit \/ ImportsEnd
    \/ InheritSeen \/ InheritEmit \/ InheritEnd
    \/ ReverseCall \/ ReverseSkip
    \/ RevBase \/ RevVisited \/ RevExpand \/ RevRecord \/ RevRecurse \/ RevReturn
    \/ ReverseList \/ ReverseSeen \/ ReverseEmit \/ ReverseEnd
    \/ BeanSearch \/ BeanSkip \/ BeanSeen \/ BeanEmit \/ BeanEnd

SpecCtx == InitCtx /\ [][NextCtx]_vars

\* ------------------------------------------------------------ extract_full_type
MaxLen == 5            \* longest source text tried, in tokens

\* A source text is a sequence of tokens:
\*   "@"     an annotation and the white space after it
\*   "vis"   public, protected or private
\*   "mod"   abstract, final or static
\*   "type"  class, interface, enum or record, white space, and a name
\*   "{" "}" a brace
\*   "x"     any other text
Tokens == {"@", "vis", "mod", "type", "{", "}", "x"}

RECURSIVE SkipAnnotations(_, _)
SkipAnnotations(text, i) ==
    IF i <= Len(text) /\ text[i] = "@" THEN SkipAnnotations(text, i + 1) ELSE i
SkipOne(text, i, tok) == IF i <= Len(text) /\ text[i] = tok THEN i + 1 ELSE i

\* TYPE_RE matched at position i: the position of its last token, or 0
MatchEnd(text, i) ==
    LET k == SkipOne(text, SkipOne(text, SkipAnnotations(text, i), "vis"), "mod")
    IN  IF k <= Len(text) /\ text[k] = "type" THEN k ELSE 0

NoMatch == [start |-> 0, end |-> 0]
\* TYPE_RE.search(code): the leftmost match; match.start() and the last token
\* of the match (match.end() is the position after it)
TypeSearch(text) ==
    LET starts == { i \in 1 .. Len(text) : MatchEnd(text, i) # 0 }
    IN  IF starts = {} THEN NoMatch
        ELSE LET s == CHOOSE i \in starts : \A j \in starts : i <= j
             IN  [start |-> s, end |-> MatchEnd(text, s)]

\* `if depth == 0` after a closing brace
\* variant: the first closing brace ends the scan
MutCloseReachedAtOnce(d) == TRUE
CloseReached(d) == d = 0

\* `for i in range(match.end(), len(code))`: the position of the closing brace
\* that ends the scan, or 0 when the loop runs out
RECURSIVE Scan(_, _, _)
Scan(text, i, d) ==
    IF i > Len(text) THEN 0
    ELSE IF text[i] = "{" THEN Scan(text, i + 1, d + 1)
    ELSE IF text[i] = "}"
         THEN IF CloseReached(d - 1) THEN i ELSE Scan(text, i + 1, d - 1)
    ELSE Scan(text, i + 1, d)

ScanFrom(text) == Scan(text, TypeSearch(text).end + 1, 0)

\* `if not match: return code`
ExtractNoType ==
    /\ pc = "extract"
    /\ TypeSearch(code) = NoMatch
    /\ full_type' = code
    /\ pc' = "extracted"
    /\ UNCHANGED <<refs, nopkg, notype, include_tests, depth, reverse_limit, a_imports,
                   target_files, code, rev_vars, ctx_vars>>

\* `return code[start:i + 1]`
ExtractType ==
    /\ pc = "extract"
    /\ TypeSearch(code) # NoMatch
    /\ ScanFrom(code) # 0
    /\ full_type' = SubSeq(code, TypeSearch(code).start, ScanFrom(code))
    /\ pc' = "extracted"
    /\ UNCHANGED <<refs, nopkg, notype, include_tests, depth, reverse_limit, a_imports,
                   target_files, code, rev_vars, ctx_vars>>

\* the loop runs out: `return code`
ExtractUnclosed ==
    /\ pc = "extract"
    /\ TypeSearch(code) # NoMatch
    /\ ScanFrom(code) = 0
    /\ full_type' = code
    /\ pc' = "extracted"
    /\ UNCHANGED <<refs, nopkg, notype, include_tests, depth, reverse_limit, a_imports,
                   target_files, code, rev_vars, ctx_vars>>

\* extract_full_type(code)
InitType ==
    /\ code \in SeqsUpTo(Tokens, MaxLen)
    /\ full_type = None
    /\ pc = "extract"
    /\ refs = {} /\ nopkg = {} /\ notype = {} /\ include_tests = FALSE
    /\ depth = 0 /\ reverse_limit = 0 /\ a_imports = <<>> /\ target_files = <<>>
    /\ root_fqn = None /\ stack = <<>> /\ visited = {} /\ searches = NoSearches
    /\ result = {} /\ ret_to = "done"
    /\ ti = 0 /\ cur = NoTarget /\ pending = {} /\ seen_files = {} /\ output_chunks = <<>>

NextType == ExtractNoType \/ ExtractType \/ ExtractUnclosed

SpecType == InitType /\ [][NextType]_vars

\* ------------------------------------------------- properties of the traversal
Frames == { stack[i] : i \in 1 .. Len(stack) }

\* the files some chain of at most k reverse-dependency hops of the reference
\* relation connects to the types named in `names`
RECURSIVE ChainWithin(_, _)
ChainWithin(names, k) ==
    IF k <= 0 THEN {}
    ELSE LET hop == { f \in Files : \E n \in names : <<f, n>> \in refs }
         IN  hop \cup ChainWithin(hop, k - 1)

\* the files found level by level, k levels deep, going on from every found file
\* that has a FQN; no visited set, no limit
RECURSIVE Within(_, _)
Within(fqns, k) ==
    IF k <= 0 THEN {}
    ELSE LET found == UNION { find_reverse_dependencies(q, include_tests) : q \in fqns }
         IN  found \cup Within({ FqnOfFile(f) : f \in { g \in found : Recoverable(g) } },
                               k - 1)

\* C2: every file a traversal of depth d records or returns is within d
\* reverse-dependency hops of the target; depth <= 0 returns nothing; on the
\* chain A <- B <- C <- DTest with depth 2, DTest is not returned.
DepthBound ==
    /\ \A fr \in Frames : fr.results \subseteq ChainWithin({base_name(root_fqn)}, depth)
    /\ pc = "done" => result \subseteq ChainWithin({base_name(root_fqn)}, depth)
    /\ (pc = "done" /\ depth <= 0) => result = {}
    /\ (pc = "done" /\ depth = 2 /\ refs = ChainRefs /\ root_fqn = Fqn(Pkg, "A"))
          => "DTest" \notin result

DepthBoundWitness ==
    /\ pc = "done" /\ depth = 2 /\ refs = ChainRefs /\ include_tests
    /\ nopkg = {} /\ notype = {} /\ reverse_limit = 0
    /\ result = {"B", "C"}

Matching(fr) == find_reverse_dependencies(fr.fqn, include_tests)

\* C3 as the specification states it: at a level with more matching files than
\* the limit, limit of them are kept for expansion and the other matching files
\* are still recorded in that level's results.
LimitKeepsTheRest ==
    \A fr \in Frames :
        (fr.at = "loop" /\ fr.todo = {} /\ reverse_limit > 0
            /\ Cardinality(Matching(fr)) > reverse_limit)
        => /\ Cardinality(fr.files) = reverse_limit
           /\ Matching(fr) \subseteq fr.results

\* C3 amended: the limit cuts the list of matching files before the loop: limit
\* of them are kept, each kept file is recorded when its turn comes, only kept
\* files are recursed into, and a level with nothing below it (depth 1) records
\* the kept files and no other matching file.
LimitTruncation ==
    /\ \A fr \in Frames :
          fr.at = "loop" =>
             /\ fr.files \subseteq Matching(fr)
             /\ Cardinality(fr.files) =
                   IF reverse_limit = 0 THEN Cardinality(Matching(fr))
                   ELSE Min(reverse_limit, Cardinality(Matching(fr)))
             /\ fr.todo \subseteq fr.files
             /\ fr.files \ fr.todo \subseteq fr.results
             /\ fr.depth = 1 => fr.results = fr.files \ fr.todo
    /\ \A i \in 2 .. Len(stack) :
          \E f \in stack[i - 1].files \ stack[i - 1].todo :
              Recoverable(f) /\ stack[i].fqn = FqnOfFile(f)

LimitTruncationWitness ==
    /\ reverse_limit = 1 /\ depth = 1 /\ pc = "rev" /\ Len(stack) = 1
    /\ Top.at = "loop" /\ Top.todo = {}
    /\ Cardinality(Matching(Top)) = 3
    /\ Cardinality(Top.results) = 1

SearchesOf(fqn) == { k \in DOMAIN searches : k[1] = fqn }

\* C8 as the specification states it: the search runs at most once per FQN,
\* whatever the levels it is reached at.
SearchedOncePerFqn ==
    \A k1, k2 \in DOMAIN searches : k1[1] = k2[1] => k1 = k2 /\ searches[k1] <= 1

\* C8 amended: the search runs at most once per pair of a FQN and a recursion
\* level; the visited set holds exactly the pairs searched.
SearchedOncePerLevel ==
    /\ \A k \in DOMAIN searches : searches[k] <= 1
    /\ DOMAIN searches = visited

SearchedOncePerLevelWitness ==
    /\ pc = "done"
    /\ \E k1, k2 \in DOMAIN searches : k1[1] = k2[1] /\ k1[2] # k2[2]
    /\ \E fqn \in { k[1] : k \in visited } : Cardinality(SearchesOf(fqn)) = 1

\* the steps an activation can still take, counting those of the calls it makes
RECURSIVE Work(_)
Work(d) == IF d <= 0 THEN 1 ELSE 2 + Cardinality(Files) * (1 + Work(d - 1))
FrameWork(fr) ==
    IF fr.at = "enter" THEN Work(fr.depth)
    ELSE 1 + Cardinality(fr.todo) * (1 + Work(fr.depth - 1))
RECURSIVE StackWork(_)
StackWork(i) == IF i = 0 THEN 0 ELSE FrameWork(stack[i]) + StackWork(i - 1)
Variant == StackWork(Len(stack))

\* C9: the traversal terminates: every step lowers a natural number (the work
\* left on the stack), the recursion is never deeper than depth + 1, and the
\* top-level call returns.
Terminates ==
    /\ [][Variant' < Variant]_vars
    /\ [](Len(stack) <= (IF depth > 0 THEN depth ELSE 0) + 1)
    /\ <>(pc = "done")

TerminatesWitness ==
    /\ pc = "done" /\ depth = MaxDepth /\ reverse_limit = 0
    /\ <<"A", "A">> \in refs /\ <<"A", "DTest">> \in refs /\ include_tests
    /\ Cardinality(DOMAIN searches) >= 4

\* C10: with no limit the traversal returns exactly the files found level by
\* level within depth levels.
Complete ==
    (pc = "done" /\ reverse_limit = 0) => result = Within({root_fqn}, depth)

CompleteWitness ==
    /\ pc = "done" /\ reverse_limit = 0 /\ depth = 3 /\ include_tests
    /\ refs = ChainRefs \cup { <<"C", "A">>, <<"A", "DTest">> }
    /\ nopkg = {} /\ notype = {}
    /\ result = {"A", "B", "C", "DTest"}

\* ------------------------------------------------- properties of the assembler
ChunkIndexes == 1 .. Len(output_chunks)
PathsOut == { output_chunks[i].path : i \in ChunkIndexes }

\* C1: after every step no two chunks of the output carry the same path, and
\* seen_files holds exactly the paths emitted.
NoDuplicatePaths ==
    /\ \A i, j \in ChunkIndexes : i # j => output_chunks[i].path # output_chunks[j].path
    /\ seen_files = PathsOut

\* a repeated target meets, in its last category, files emitted before
NoDuplicatePathsWitness ==
    /\ pc = "bean_emit" /\ ti = 2 /\ target_files[1] = target_files[2]
    /\ pending # {} /\ pending \subseteq seen_files
    /\ { output_chunks[i].kind : i \in ChunkIndexes } =
          {"IMPORT", "EXTENDS / IMPLEMENTS", "REVERSE DEPENDENCY", "BEAN / CONFIGURATION"}

KindRank(kind) ==
    CASE kind = "IMPORT" -> 1
      [] kind = "EXTENDS / IMPLEMENTS" -> 2
      [] kind = "REVERSE DEPENDENCY" -> 3
      [] kind = "BEAN / CONFIGURATION" -> 4

\* C4: in the output, the chunks of an earlier target precede those of a later
\* one, and the chunks of one target come in the order IMPORT, EXTENDS /
\* IMPLEMENTS, REVERSE DEPENDENCY, BEAN / CONFIGURATION.
OrderedOutput ==
    \A i, j \in ChunkIndexes :
        i < j => \/ output_chunks[i].for < output_chunks[j].for
                 \/ /\ output_chunks[i].for = output_chunks[j].for
                    /\ KindRank(output_chunks[i].kind) <= KindRank(output_chunks[j].kind)

OrderedOutputWitness ==
    /\ pc = "done" /\ Len(target_files) = 2
    /\ \E i, j \in ChunkIndexes : output_chunks[i].for = 1 /\ output_chunks[j].for = 2
    /\ Cardinality({ output_chunks[i].kind :
                        i \in { k \in ChunkIndexes : output_chunks[k].for = 2 } }) >= 3

AtMissingTarget ==
    pc = "target" /\ ti <= Len(target_files) /\ target_files[ti] \notin Files

\* C6: a step taken at a missing target changes nothing but the position in the
\* target list (no chunk, seen_files and every other variable as before, the
\* loop goes on with the next target), and no chunk is ever emitted for a
\* missing target.
SkipsMissing ==
    /\ [][AtMissingTarget =>
            /\ ti' = ti + 1 /\ pc' = "target"
            /\ UNCHANGED <<seen_files, output_chunks, cur, pending, rev_vars, repo_vars>>]_vars
    /\ [](\A i \in ChunkIndexes : target_files[output_chunks[i].for] \in Files)

SkipsMissingWitness ==
    /\ pc = "done" /\ target_files = <<Missing, "A">>
    /\ \E i \in ChunkIndexes : output_chunks[i].for = 2

\* what the import and inheritance steps of a target resolve to
ImportedFiles(f) == UNION { resolve_import(imp) : imp \in SeqRange(ImportsOf(f)) }
InheritedFiles(f) == UNION { resolve_import(t) : t \in SeqRange(InheritTokens(f)) }

\* C7: a target without a recognisable package or type declaration gets no
\* reverse-dependency traversal and no REVERSE DEPENDENCY chunk, its import and
\* inheritance files are emitted all the same; in the traversal only files with
\* a FQN are recursed into, the others are recorded.
MalformedDegrades ==
    /\ \A i \in ChunkIndexes :
          output_chunks[i].kind = "REVERSE DEPENDENCY"
             => Recoverable(target_files[output_chunks[i].for])
    /\ pc \in {"rev", "rev_list", "rev_emit"}
          => Recoverable(cur.file) /\ root_fqn = FqnOfFile(cur.file)
    /\ pc \in {"reverse", "rev", "rev_list", "rev_emit", "bean", "bean_emit"}
          => ImportedFiles(cur.file) \cup InheritedFiles(cur.file) \subseteq PathsOut
    /\ \A i \in 2 .. Len(stack) : stack[i].fqn[1] # None /\ stack[i].fqn[2] # None
    /\ \A fr \in Frames : fr.files \ fr.todo \subseteq fr.results

\* B has no package declaration: as a target it gets its import chunk and no
\* traversal; as a file found for A it is recorded and not searched for
MalformedDegradesWitness ==
    /\ pc = "done" /\ target_files = <<"B", "A">> /\ nopkg = {"B"}
    /\ \E i \in ChunkIndexes : output_chunks[i].for = 1 /\ output_chunks[i].kind = "IMPORT"
    /\ \E i \in ChunkIndexes : /\ output_chunks[i].for = 2
                               /\ output_chunks[i].kind = "IMPORT"
                               /\ output_chunks[i].path = "B"
    /\ "B" \in result /\ depth = 3
    /\ DOMAIN searches # {}
    /\ \A k \in DOMAIN searches : base_name(k[1]) # "B"

\* ----------------------------------------- properties of extract_full_type
Opens(text, a, b) == Cardinality({ i \in a .. b : text[i] = "{" })
Closes(text, a, b) == Cardinality({ i \in a .. b : text[i] = "}" })

\* the braces from position a on are balanced, and there is one
BalancedFrom(text, a) ==
    /\ Opens(text, a, Len(text)) > 0
    /\ Opens(text, a, Len(text)) = Closes(text, a, Len(text))
    /\ \A b \in a .. Len(text) : Closes(text, a, b) <= Opens(text, a, b)

FirstOpen(text, a) ==
    CHOOSE i \in a .. Len(text) :
        text[i] = "{" /\ \A j \in a .. i - 1 : text[j] # "{"

\* the closing brace that matches the opening brace at position o
MatchingClose(text, o) ==
    CHOOSE j \in o .. Len(text) :
        /\ text[j] = "}"
        /\ Opens(text, o, j) = Closes(text, o, j)
        /\ \A k \in o .. j - 1 : Opens(text, o, k) > Closes(text, o, k)

\* C5: when a type declaration is matched and the braces after it are
\* balanced, the result runs from the start of the match to the closing brace
\* that matches the first opening brace after the declaration.
BraceBalance ==
    (pc = "extracted" /\ TypeSearch(code) # NoMatch
        /\ BalancedFrom(code, TypeSearch(code).end + 1))
    => full_type = SubSeq(code, TypeSearch(code).start,
                          MatchingClose(code, FirstOpen(code, TypeSearch(code).end + 1)))

\* a body with a nested block: the result ends at the outer closing brace
BraceBalanceWitness ==
    /\ pc = "extracted"
    /\ code = <<"type", "{", "{", "}", "}">>
    /\ ScanFrom(code) = 5
    /\ full_type = <<"type", "{", "{", "}", "}">>
====
